---- MODULE Spec2Model ----
(***************************************************************************)
(* State-machine model of the RealtimeCommand view                         *)
(* (src/src/pages/RealtimeCommand.tsx): session resolution, the snapshot   *)
(* fetch, the realtime channels with their merge callback and the stop     *)
(* command.  Every action is one event-loop task of the component: the     *)
(* handler body, the state updates it makes, and the effects React re-runs *)
(* for the dependency arrays those updates change.                         *)
(*                                                                         *)
(* The component keeps two event lists, potholes and ride events, that     *)
(* never read each other's state.  A behaviour follows one of them: kind   *)
(* is chosen in Init, and items / order / loading / pending / db are that  *)
(* list's potholes / sortOrder / loadingPotholes or events /               *)
(* eventSortOrder / loadingEvents, its queries in flight and its table.    *)
(***************************************************************************)
EXTENDS Integers, Sequences, FiniteSets, TLC

\* ------------------------------------------------------------------ bounds
MaxRows == 2
MaxTs == 2
MaxLen == 3
MaxPending == 2
MaxResolve == 1
MaxStops == 2
MaxInput == 130

\* ------------------------------------------------------------------ values
NoRider == "none"
NoFile == "null"
Riders == {"R1", "R2"}
Files == {"F1", "F2"}
\* riderfiles.rider_id: the rider each file (session) was uploaded by.
FileRider == [f \in Files |-> IF f = "F1" THEN "R1" ELSE "R2"]
SortOrders == {"newest", "oldest"}
Kinds == {"pothole", "ride-events"}

VARIABLES
  kind,             \* the event list this behaviour follows
  mounted,          \* the component instance is mounted
  riderId,          \* searchParams.get("riderId")
  fileId,           \* useState fileId
  isLoadingFileId,  \* useState isLoadingFileId
  isActive,         \* useState isActive
  isStopping,       \* useState isStopping
  items,            \* useState potholes / events
  order,            \* useState sortOrder / eventSortOrder
  loading,          \* useState loadingPotholes / loadingEvents
  channels,         \* open realtime channels: <<name, rider, file>>
  pendingR,         \* riderfiles queries in flight, per rider
  pending,          \* pothole_events / ride_events queries in flight
  stale,            \* the snapshot last applied came from a superseded query
  db,               \* backend table pothole_events / ride_events, in insertion order
  stopWrite,        \* the rider_commands insert: idle, pending, ok, error
  stopCalls,        \* number of rider_commands inserts issued
  toastTitle,       \* title of the last toast shown
  navScheduled,     \* the 1500 ms navigation timer: none, armed, fired
  imuData,          \* useState imuData
  gpsData,          \* useState gpsData
  lastSample,       \* payload.new of the riderdata notification handled last
  overall,          \* SafetyTrendChart: the overall prop
  gauge             \* SafetyTrendChart: what the score meter renders

vars == <<kind, mounted, riderId, fileId, isLoadingFileId, isActive, isStopping,
          items, order, loading, channels, pendingR, pending, stale, db,
          stopWrite, stopCalls, toastTitle, navScheduled,
          imuData, gpsData, lastSample, overall, gauge>>

telemetryVars == <<imuData, gpsData, lastSample>>
chartVars == <<overall, gauge>>

\* ----------------------------------------------------------------- helpers
Range(s) == {s[i] : i \in 1..Len(s)}

InsertDescUnstable(x, s) ==
  LET k == Cardinality({i \in 1..Len(s) : s[i].ts > x.ts})
  IN  SubSeq(s, 1, k) \o <<x>> \o SubSeq(s, k + 1, Len(s))

\* merged.sort((a, b) => new Date(b.ts) - new Date(a.ts)): Array.prototype.sort
\* is stable, so x goes behind every element whose timestamp is >= its own.
InsertDesc(x, s) ==
  LET k == Cardinality({i \in 1..Len(s) : s[i].ts >= x.ts})
  IN  SubSeq(s, 1, k) \o <<x>> \o SubSeq(s, k + 1, Len(s))

RECURSIVE SortDesc(_)
SortDesc(s) ==
  IF s = <<>> THEN <<>>
  ELSE InsertDesc(s[Len(s)], SortDesc(SubSeq(s, 1, Len(s) - 1)))

\* (prev) => { const merged = [e, ...prev]; merged.sort(...); return merged; }
Merge(e, prev) == SortDesc(<<e>> \o prev)

IsSortedBy(s, o) ==
  \A i \in 1..Len(s) : \A j \in 1..Len(s) :
    i < j => IF o = "oldest" THEN s[i].ts <= s[j].ts ELSE s[i].ts >= s[j].ts

\* .eq("file_id", fileId).order(ts, {ascending: order === "oldest"}) evaluated on
\* the first k rows of the table; rows with equal timestamps come in any order.
Snapshot(tbl, k, file, o) ==
  LET S == {tbl[i] : i \in {j \in 1..k : tbl[j].file_id = file}}
      n == Cardinality(S)
  IN  {s \in [1..n -> S] : Range(s) = S /\ IsSortedBy(s, o)}

\* if (!riderId || !fileId || isLoadingFileId) return;
Guard(r, f, l) == r # NoRider /\ f # NoFile /\ ~l

\* A query in flight: its key, the table's length when it was sent, and whether
\* a later query of the same effect has been sent since.
Request(r, f, o) == [rider |-> r, file |-> f, sort |-> o, lo |-> Len(db), stale |-> FALSE]

Issue(pend, req) == {[q EXCEPT !.stale = TRUE] : q \in pend} \cup {req}

\* The view that is rendered: lines 372-381, 384-400, 406-600.
View ==
  IF isLoadingFileId THEN "loading"
  ELSE IF fileId = NoFile THEN "no-session"
  ELSE "live"

\* ------------------------------------------------------------------ effects
\* The dependency values of one render and the state the effects act on.
CurDeps == [r |-> riderId, f |-> fileId, l |-> isLoadingFileId, o |-> order]
CurEff == [ch |-> channels, pd |-> pending, ld |-> loading]

\* Mutant of Cleanup: the effect returns no cleanup, the channel stays open.
CleanupMissing(chans, name) == chans

\* return () => { supabase.removeChannel(channel); }
Cleanup(chans, name) == {c \in chans : c[1] # name}

\* Mutant of RiderdataSub: the telemetry effect also waits for the session.
RiderdataSubWaits(r) ==
  IF r # NoRider /\ fileId # NoFile /\ ~isLoadingFileId
  THEN {<<"riderdata", r, NoFile>>} ELSE {}

\* if (!riderId) return; supabase.channel(`riderdata-${riderId}`)...subscribe()
RiderdataSub(r) == IF r # NoRider THEN {<<"riderdata", r, NoFile>>} ELSE {}

\* supabase.channel(`pothole-${riderId}-${fileId}`) / `ride-events-...`, behind the guard
EventSub(r, f, l) == IF Guard(r, f, l) THEN {<<kind, r, f>>} ELSE {}

\* load(), behind the guard: setLoading...(true) and the query is sent
FetchRuns(r, f, l) == Guard(r, f, l)

\* One commit: React runs the cleanup and the body of every effect whose
\* dependency array differs between the renders old and new.
RunEffects(old, new, st) ==
  LET chgR == new.r # old.r
      chgL == new # old
      run == chgL /\ FetchRuns(new.r, new.f, new.l)
      ch1 == IF chgR THEN Cleanup(st.ch, "riderdata") \cup RiderdataSub(new.r) ELSE st.ch
      ch2 == IF chgL THEN Cleanup(ch1, kind) \cup EventSub(new.r, new.f, new.l) ELSE ch1
  IN  [ch |-> ch2,
       pd |-> IF run THEN Issue(st.pd, Request(new.r, new.f, new.o)) ELSE st.pd,
       ld |-> IF run THEN TRUE ELSE st.ld]

Commit(st) ==
  /\ Cardinality(st.pd) <= MaxPending
  /\ channels' = st.ch
  /\ pending' = st.pd
  /\ loading' = st.ld

\* ------------------------------------------------------ SafetyTrendChart
\* A JavaScript number is kept in tenths: 9.2 is 92.
Tenths(n) == 10 * n

\* The values the overall prop can hold at run time (clamp takes v: any).
Num(n) == [type |-> "number", val |-> n]
NaN == [type |-> "NaN", val |-> 0]
Infinite == {[type |-> "Infinity", val |-> 0], [type |-> "-Infinity", val |-> 0]}
Nullish == {[type |-> "null", val |-> 0], [type |-> "undefined", val |-> 0]}
Strings == {[type |-> "text", val |-> 0],             \* "abc"
            [type |-> "empty-string", val |-> 0],     \* ""
            [type |-> "numeric-string", val |-> 75],  \* "7.5"
            [type |-> "numeric-string", val |-> 250]} \* "25"
Booleans == {[type |-> "boolean", val |-> 0], [type |-> "boolean", val |-> 1]}
Inputs ==
  {Num(n) : n \in -MaxInput..MaxInput} \cup {NaN} \cup Infinite \cup Nullish
    \cup Strings \cup Booleans

\* v ?? 0
Coalesce(v) == IF v \in Nullish THEN Num(0) ELSE v

\* Number(v)
ToNumber(v) ==
  CASE v.type \in {"number", "NaN", "Infinity", "-Infinity"} -> v
    [] v.type = "null" -> Num(0)
    [] v.type = "undefined" -> NaN
    [] v.type = "text" -> NaN
    [] v.type = "empty-string" -> Num(0)
    [] v.type = "numeric-string" -> Num(v.val)
    [] v.type = "boolean" -> Num(Tenths(v.val))

\* Math.min(b, n) and Math.max(a, m) for finite a, b and a non-NaN n
MathMin(b, n) ==
  CASE n.type = "Infinity" -> Num(b)
    [] n.type = "-Infinity" -> n
    [] OTHER -> Num(IF n.val < b THEN n.val ELSE b)

MathMax(a, m) ==
  CASE m.type = "-Infinity" -> Num(a)
    [] m.type = "Infinity" -> m
    [] OTHER -> Num(IF m.val > a THEN m.val ELSE a)

clampSwapped(v, a, b) ==
  LET n == ToNumber(Coalesce(v))
  IN  IF n.type = "NaN" THEN a ELSE MathMin(a, MathMax(b, n)).val

\* const n = Number(v ?? 0); if (Number.isNaN(n)) return a;
\* return Math.max(a, Math.min(b, n));
clamp(v, a, b) ==
  LET n == ToNumber(Coalesce(v))
  IN  IF n.type = "NaN" THEN a ELSE MathMax(a, MathMin(b, n)).val

getScoreColorExclusive(score) ==
  IF score > Tenths(8) THEN "#22c55e"
  ELSE IF score > Tenths(6) THEN "#eab308"
  ELSE IF score > Tenths(4) THEN "#f97316"
  ELSE "#ef4444"

getScoreColor(score) ==
  IF score >= Tenths(8) THEN "#22c55e"
  ELSE IF score >= Tenths(6) THEN "#eab308"
  ELSE IF score >= Tenths(4) THEN "#f97316"
  ELSE "#ef4444"

\* overallClamped >= 8 ? "Excellent" : overallClamped >= 6 ? "Good" : ...
TierLabel(overallClamped) ==
  IF overallClamped >= Tenths(8) THEN "Excellent"
  ELSE IF overallClamped >= Tenths(6) THEN "Good"
  ELSE IF overallClamped >= Tenths(4) THEN "Needs Improvement"
  ELSE "Poor"

\* What the score meter shows for the overall prop v.  percentage is
\* (overallClamped / 10) * 100, a plain number of percent.
Meter(v) ==
  LET overallClamped == clamp(v, Tenths(0), Tenths(10))
  IN  [rendered |-> TRUE,
       overallClamped |-> overallClamped,
       percentage |-> (overallClamped * 100) \div Tenths(10),
       scoreColor |-> getScoreColor(overallClamped),
       label |-> TierLabel(overallClamped)]

NoMeter ==
  [rendered |-> FALSE, overallClamped |-> 0, percentage |-> 0, scoreColor |-> "",
   label |-> ""]

\* ------------------------------------------------------ riderdata payload
\* payload.new of a riderdata INSERT: the columns the callback reads, with the
\* values a row can carry (ay .. gz and gps_lon go through the same code as ax
\* and gps_lat).
Null == [type |-> "null", val |-> 0]
AxValues == {Null, Num(-25), [type |-> "text", val |-> 0]}
LatValues == {Null, Num(0), [type |-> "numeric-string", val |-> 125]}
SpeedValues == {Null, Num(100)}
Payloads == [ax : AxValues, gps_lat : LatValues, gps_speed_kn : SpeedValues]
NoSample == [ax |-> Null, gps_lat |-> Null, gps_speed_kn |-> Null, none |-> TRUE]

\* JavaScript truthiness of v, as tested by  v ? ... : ...  and  v || 0
Truthy(v) ==
  CASE v.type \in {"null", "undefined", "NaN", "empty-string"} -> FALSE
    [] v.type \in {"number", "boolean"} -> v.val # 0
    [] OTHER -> TRUE

\* Number(x) || 0
OrZero(n) == IF Truthy(n) THEN n ELSE Num(0)

\* parseFloat(x)
parseFloat(v) ==
  CASE v.type \in {"number", "numeric-string"} -> Num(v.val)
    [] v.type \in {"Infinity", "-Infinity"} -> v
    [] OTHER -> NaN

\* Number(d.gps_speed_kn) * 1.852, the product kept in units of 1/1000 of the
\* operand's unit
Times1852(n) == IF n.type = "number" THEN Num(n.val * 1852) ELSE n

\* The objects the callback passes to setImuData and setGpsData.
ImuOf(d) == [ax |-> OrZero(ToNumber(d.ax))]

GpsOf(d) ==
  [latitude |-> IF Truthy(d.gps_lat) THEN parseFloat(d.gps_lat) ELSE Null,
   speed |-> IF Truthy(d.gps_speed_kn)
             THEN Times1852(ToNumber(d.gps_speed_kn)) ELSE Num(0)]

\* setImuData({...}) / setGpsData({...}): the new object replaces the state.
RetainMerged(prev, new) ==
  [f \in DOMAIN new |-> IF new[f] \in {Null, Num(0)} THEN prev[f] ELSE new[f]]

Retain(prev, new) == new

\* -------------------------------------------------------------------- Init
\* The first commit: riderId comes from the URL and may be absent; the resolver
\* effect has sent its query and the riderdata channel is open when it is present.
Init ==
  /\ kind \in Kinds
  /\ mounted = TRUE
  /\ riderId \in {NoRider, "R1"}
  /\ fileId = NoFile
  /\ isLoadingFileId = TRUE
  /\ isActive = TRUE
  /\ isStopping = FALSE
  /\ items = <<>>
  /\ order = "newest"
  /\ loading = FALSE
  /\ channels = RiderdataSub(riderId)
  /\ pendingR = [r \in Riders |-> IF r = riderId THEN 1 ELSE 0]
  /\ pending = {}
  /\ stale = FALSE
  /\ db = <<>>
  /\ stopWrite = "idle"
  /\ stopCalls = 0
  /\ toastTitle = "none"
  /\ navScheduled = "none"
  /\ imuData = [ax |-> Num(0)]
  /\ gpsData = [latitude |-> Null, speed |-> Num(0)]
  /\ lastSample = NoSample
  /\ overall = Num(0)
  /\ gauge = NoMeter

\* ----------------------------------------------------------------- actions
\* The URL's riderId changes while the view stays mounted.  First commit: every
\* effect re-runs with the new riderId and the old fileId / isLoadingFileId; the
\* resolver effect calls setIsLoadingFileId(true) and sends its query.  Second
\* commit: the effects keyed on isLoadingFileId re-run with it set.
ChangeRider(r) ==
  /\ mounted
  /\ r # riderId
  /\ r # NoRider => pendingR[r] < MaxResolve
  /\ LET d0 == CurDeps
         d1 == [d0 EXCEPT !.r = r]
         d2 == [d1 EXCEPT !.l = IF r # NoRider THEN TRUE ELSE d0.l]
     IN  /\ riderId' = r
         /\ isLoadingFileId' = d2.l
         /\ pendingR' = IF r # NoRider THEN [pendingR EXCEPT ![r] = @ + 1] ELSE pendingR
         /\ Commit(RunEffects(d1, d2, RunEffects(d0, d1, CurEff)))
  /\ UNCHANGED <<telemetryVars, chartVars,
                 kind, mounted, fileId, isActive, isStopping, items, order, stale, db,
                 stopWrite, stopCalls, toastTitle, navScheduled>>

\* A state hook's setter called from a continuation of an await.  The
\* continuations carry no cancellation flag; the value is stored in the
\* component, and React drops the update of a component that is unmounted.
AppliedAlways(new, old) == new

Applied(new, old) == IF mounted THEN new ELSE old

\* The riderfiles query of fetchLatestFileId answers: an error, no row, or the id
\* of the rider's latest file (.eq("rider_id", riderId): a file of that rider).
ResolveOutcomes == {"error", "nodata"} \cup Files

ResolveResponse(r, out) ==
  /\ pendingR[r] > 0
  /\ out \in Files => FileRider[out] = r
  /\ pendingR' = [pendingR EXCEPT ![r] = @ - 1]
  /\ toastTitle' = IF out = "error" THEN "Error" ELSE toastTitle
  /\ LET f == IF out \in Files THEN out ELSE fileId
     IN  /\ fileId' = Applied(f, fileId)
         /\ isLoadingFileId' = Applied(FALSE, isLoadingFileId)
         /\ IF mounted
            THEN Commit(RunEffects(CurDeps, [CurDeps EXCEPT !.f = f, !.l = FALSE], CurEff))
            ELSE UNCHANGED <<channels, pending, loading>>
  /\ UNCHANGED <<telemetryVars, chartVars,
                 kind, mounted, riderId, isActive, isStopping, items, order, stale, db,
                 stopWrite, stopCalls, navScheduled>>

\* setSortOrder / setEventSortOrder (the state hooks of lines 60 and 65): the
\* sort direction changes in the live view; the fetch effect and the
\* subscription effect of the list re-run.
SetSortOrder(o) ==
  /\ mounted
  /\ View = "live"
  /\ o # order
  /\ order' = o
  /\ Commit(RunEffects(CurDeps, [CurDeps EXCEPT !.o = o], CurEff))
  /\ UNCHANGED <<telemetryVars, chartVars,
                 kind, mounted, riderId, fileId, isLoadingFileId, isActive, isStopping,
                 items, pendingR, stale, db, stopWrite, stopCalls, toastTitle,
                 navScheduled>>

\* The backend inserts a row; id is the table's primary key.
BackendInsert(t, f) ==
  /\ Len(db) < MaxRows
  /\ db' = Append(db, [id |-> Len(db) + 1, ts |-> t, file_id |-> f])
  /\ UNCHANGED <<telemetryVars, chartVars,
                 kind, mounted, riderId, fileId, isLoadingFileId, isActive, isStopping,
                 items, order, loading, channels, pendingR, pending, stale,
                 stopWrite, stopCalls, toastTitle, navScheduled>>

\* load() resumes after its await with an error:
\*   if (error) { console.error(...) } ...; setLoadingPotholes(false)
FetchError(req) ==
  /\ req \in pending
  /\ pending' = pending \ {req}
  /\ loading' = Applied(FALSE, loading)
  /\ UNCHANGED <<telemetryVars, chartVars,
                 kind, mounted, riderId, fileId, isLoadingFileId, isActive, isStopping,
                 items, order, channels, pendingR, stale, db, stopWrite, stopCalls,
                 toastTitle, navScheduled>>

\* load() resumes after its await with rows.  The query saw the table as it was
\* at some moment between the request and the answer.
\*   else { setPotholes(data || []) }  setLoadingPotholes(false)
FetchData(req, data) ==
  /\ req \in pending
  /\ pending' = pending \ {req}
  /\ \E k \in req.lo..Len(db) : data \in Snapshot(db, k, req.file, req.sort)
  /\ items' = Applied(data, items)
  /\ stale' = IF mounted THEN req.stale ELSE stale
  /\ loading' = Applied(FALSE, loading)
  /\ UNCHANGED <<telemetryVars, chartVars,
                 kind, mounted, riderId, fileId, isLoadingFileId, isActive, isStopping,
                 order, channels, pendingR, db, stopWrite, stopCalls, toastTitle,
                 navScheduled>>

\* if (e.file_id !== fileId) { ...; return; }   (fileId of the subscribing render)
PotholeAccepts(e, f) == e.file_id = f

\* The ride-events callback has no such check.
EventAccepts(ev, f) == TRUE

Accepts(e, f) == IF kind = "pothole" THEN PotholeAccepts(e, f) ELSE EventAccepts(e, f)

\* An INSERT notification arrives on the list's open channel.  Delivery is at
\* least once, and the server-side filter is not relied on for file_id.
Notification(e) ==
  /\ \E c \in channels :
       /\ c[1] = kind
       /\ items' = IF Accepts(e, c[3]) THEN Merge(e, items) ELSE items
  /\ Len(items') <= MaxLen
  /\ UNCHANGED <<telemetryVars, chartVars,
                 kind, mounted, riderId, fileId, isLoadingFileId, isActive, isStopping,
                 order, loading, channels, pendingR, pending, stale, db, stopWrite,
                 stopCalls, toastTitle, navScheduled>>

\* An INSERT notification arrives on the riderdata channel.
RiderdataNotification(d) ==
  /\ \E c \in channels : c[1] = "riderdata"
  /\ lastSample' = d
  /\ imuData' = Retain(imuData, ImuOf(d))
  /\ gpsData' = Retain(gpsData, GpsOf(d))
  /\ UNCHANGED <<chartVars, kind, mounted, riderId, fileId, isLoadingFileId, isActive,
                 isStopping, items, order, loading, channels, pendingR, pending,
                 stale, db, stopWrite, stopCalls, toastTitle, navScheduled>>

\* Every effect's cleanup runs when the component unmounts.
CleanupAll(chans) == Cleanup(Cleanup(chans, "riderdata"), kind)

Unmount ==
  /\ mounted
  /\ mounted' = FALSE
  /\ channels' = CleanupAll(channels)
  /\ UNCHANGED <<telemetryVars, chartVars,
                 kind, riderId, fileId, isLoadingFileId, isActive, isStopping, items,
                 order, loading, pendingR, pending, stale, db, stopWrite, stopCalls,
                 toastTitle, navScheduled>>

\* Mutant of StopEnabled: the button is never disabled.
StopAlwaysEnabled == TRUE

\* <Button disabled={isStopping} onClick={handleStopRider}>, rendered in the live view
StopEnabled == ~isStopping

\* handleStopRider up to its await: setIsStopping(true); supabase...insert({...})
StopClick ==
  /\ mounted
  /\ View = "live"
  /\ StopEnabled
  /\ stopCalls < MaxStops
  /\ isStopping' = TRUE
  /\ stopWrite' = "pending"
  /\ stopCalls' = stopCalls + 1
  /\ UNCHANGED <<telemetryVars, chartVars,
                 kind, mounted, riderId, fileId, isLoadingFileId, isActive, items,
                 order, loading, channels, pendingR, pending, stale, db, toastTitle,
                 navScheduled>>

\* handleStopRider after its await: the insert's result ({error} or not) is not
\* read; toast({title: "Ride Stopped"}); setTimeout(() => navigate(...), 1500)
StopWriteDone(out) ==
  /\ stopWrite = "pending"
  /\ stopWrite' = out
  /\ toastTitle' = "Ride Stopped"
  /\ navScheduled' = "armed"
  /\ UNCHANGED <<telemetryVars, chartVars,
                 kind, mounted, riderId, fileId, isLoadingFileId, isActive, isStopping,
                 items, order, loading, channels, pendingR, pending, stale, db,
                 stopCalls>>

\* The timer fires: navigate(`/dashboard?riderId=...`) leaves the view.
NavTimer ==
  /\ navScheduled = "armed"
  /\ navScheduled' = "fired"
  /\ mounted' = FALSE
  /\ channels' = CleanupAll(channels)
  /\ UNCHANGED <<telemetryVars, chartVars,
                 kind, riderId, fileId, isLoadingFileId, isActive, isStopping, items,
                 order, loading, pendingR, pending, stale, db, stopWrite, stopCalls,
                 toastTitle>>

Rows == Range(db)
Lists == UNION {[1..n -> Rows] : n \in 0..Len(db)}

\* The answers the query req can get: the rows of its session that some table
\* state between the request and now held, in the direction it asked for.
Answers(req) ==
  UNION {Snapshot(db, k, req.file, req.sort) : k \in req.lo..Len(db)}

Next ==
  \/ \E r \in Riders \cup {NoRider} : ChangeRider(r)
  \/ \E d \in Payloads : RiderdataNotification(d)
  \/ \E r \in Riders : \E out \in ResolveOutcomes : ResolveResponse(r, out)
  \/ \E o \in SortOrders : SetSortOrder(o)
  \/ \E t \in 1..MaxTs : \E f \in Files : BackendInsert(t, f)
  \/ \E req \in pending : FetchError(req)
  \/ \E req \in pending : \E data \in Answers(req) : FetchData(req, data)
  \/ \E e \in Rows : Notification(e)
  \/ Unmount
  \/ StopClick
  \/ \E out \in {"ok", "error"} : StopWriteDone(out)
  \/ NavTimer

Spec == Init /\ [][Next]_vars

\* The merged list of one session: the table fills, the snapshot is fetched and
\* re-fetched, notifications are merged.  riderId stays as it was at view entry.
NextMerge ==
  \/ \E r \in Riders : \E out \in ResolveOutcomes : ResolveResponse(r, out)
  \/ \E o \in SortOrders : SetSortOrder(o)
  \/ \E t \in 1..MaxTs : \E f \in Files : BackendInsert(t, f)
  \/ \E req \in pending : FetchError(req)
  \/ \E req \in pending : \E data \in Answers(req) : FetchData(req, data)
  \/ \E e \in Rows : Notification(e)
  \/ Unmount

SpecMerge == Init /\ [][NextMerge]_vars

\* The same list while the sort direction stays as it was at view entry.
NextStream ==
  \/ \E r \in Riders : \E out \in ResolveOutcomes : ResolveResponse(r, out)
  \/ \E t \in 1..MaxTs : \E f \in Files : BackendInsert(t, f)
  \/ \E req \in pending : FetchError(req)
  \/ \E req \in pending : \E data \in Answers(req) : FetchData(req, data)
  \/ \E e \in Rows : Notification(e)
  \/ Unmount

SpecStream == Init /\ [][NextStream]_vars

\* The view's lifecycle while the table stays empty: rider changes, session
\* resolution, sort toggles, snapshot answers, the stop command, unmount.
NextView ==
  \/ \E r \in Riders \cup {NoRider} : ChangeRider(r)
  \/ \E r \in Riders : \E out \in ResolveOutcomes : ResolveResponse(r, out)
  \/ \E o \in SortOrders : SetSortOrder(o)
  \/ \E req \in pending : FetchError(req)
  \/ \E req \in pending : \E data \in Answers(req) : FetchData(req, data)
  \/ Unmount
  \/ StopClick
  \/ \E out \in {"ok", "error"} : StopWriteDone(out)
  \/ NavTimer

SpecView == Init /\ [][NextView]_vars

\* The same lifecycle with the scheduling the event loop gives: a query that
\* was sent is answered (with rows, no row or an error), an insert that was
\* sent completes, an armed timer fires.  What the user or the URL does
\* (rider change, sort toggle, stop click, leaving the view) is not forced.
ResolveAnswered ==
  \E r \in Riders : \E out \in ResolveOutcomes : ResolveResponse(r, out)

SnapshotAnswered ==
  \/ \E req \in pending : FetchError(req)
  \/ \E req \in pending : \E data \in Answers(req) : FetchData(req, data)

StopAnswered == \E out \in {"ok", "error"} : StopWriteDone(out)

SpecViewFair ==
  /\ SpecView
  /\ WF_vars(ResolveAnswered)
  /\ WF_vars(SnapshotAnswered)
  /\ WF_vars(StopAnswered)
  /\ WF_vars(NavTimer)

\* Telemetry arriving while the session's list is loaded and the stop command
\* is used.
NextTelemetry ==
  \/ \E r \in Riders : \E out \in ResolveOutcomes : ResolveResponse(r, out)
  \/ \E t \in 1..MaxTs : \E f \in Files : BackendInsert(t, f)
  \/ \E req \in pending : \E data \in Answers(req) : FetchData(req, data)
  \/ \E d \in Payloads : RiderdataNotification(d)
  \/ StopClick

SpecTelemetry == Init /\ [][NextTelemetry]_vars

\* SafetyTrendChart on its own: the parent renders it with an overall prop.
InitChart ==
  /\ kind = "pothole"
  /\ mounted = FALSE
  /\ riderId = NoRider
  /\ fileId = NoFile
  /\ isLoadingFileId = TRUE
  /\ isActive = TRUE
  /\ isStopping = FALSE
  /\ items = <<>>
  /\ order = "newest"
  /\ loading = FALSE
  /\ channels = {}
  /\ pendingR = [r \in Riders |-> 0]
  /\ pending = {}
  /\ stale = FALSE
  /\ db = <<>>
  /\ stopWrite = "idle"
  /\ stopCalls = 0
  /\ toastTitle = "none"
  /\ navScheduled = "none"
  /\ imuData = [ax |-> Num(0)]
  /\ gpsData = [latitude |-> Null, speed |-> Num(0)]
  /\ lastSample = NoSample
  /\ overall \in Inputs
  /\ gauge = NoMeter

SafetyTrendChart(v) ==
  /\ overall' = v
  /\ gauge' = Meter(v)
  /\ UNCHANGED <<telemetryVars, kind, mounted, riderId, fileId, isLoadingFileId,
                 isActive, isStopping, items, order, loading, channels, pendingR,
                 pending, stale, db, stopWrite, stopCalls, toastTitle, navScheduled>>

NextChart == \E v \in Inputs : SafetyTrendChart(v)

SpecChart == InitChart /\ [][NextChart]_vars

\* ------------------------------------------------------------------ claims
HasChannel(name) == \E c \in channels : c[1] = name

\* C1: a merged collection never holds two elements with the same id.
NoDuplicateIds ==
  \A i \in 1..Len(items) : \A j \in 1..Len(items) : i # j => items[i].id # items[j].id

OnlyResolvedSession ==
  \A i \in 1..Len(items) : items[i].file_id = fileId

\* C4: the answer of a superseded snapshot query is ignored, never applied.
SupersededAnswerIgnored == ~stale

\* C5: no snapshot query is sent and no event channel is opened while the
\* session id is absent or the current rider's session is still being resolved.
Resolving == riderId \in Riders /\ pendingR[riderId] > 0
FetchIssued == \E q \in pending' : ~q.stale /\ q \notin pending
ChannelOpened == \E c \in channels' : c[1] = kind /\ c \notin channels
ResolutionPrecedesFetch ==
  [][(FetchIssued \/ ChannelOpened) => (fileId' # NoFile /\ ~Resolving')]_vars

\* C6 as stated: the telemetry channel is not open while the session is resolved.
TelemetryAfterResolution == HasChannel("riderdata") => ~isLoadingFileId

\* C6 amended: the telemetry channel is keyed on riderId alone; it is open
\* exactly while the view is mounted with a riderId, resolved session or not.
TelemetryKeyedOnRider ==
  {c \in channels : c[1] = "riderdata"} =
    IF mounted /\ riderId # NoRider THEN {<<"riderdata", riderId, NoFile>>} ELSE {}

TelemetryDuringResolution ==
  /\ riderId = "R2"
  /\ pendingR["R2"] > 0
  /\ isLoadingFileId
  /\ <<"riderdata", "R2", NoFile>> \in channels

\* C7: at most one stop command is written over the lifetime of the view.
AtMostOneStopWrite == stopCalls <= 1

StopCompletedStillMounted ==
  mounted /\ View = "live" /\ isStopping /\ stopWrite = "ok" /\ stopCalls = 1

\* C8: after a successful stop write the active flag is false and the
\* navigation away is scheduled.
StopSuccessDeactivates ==
  stopWrite = "ok" => (~isActive /\ navScheduled # "none")

\* C9: after a failed stop write no success is reported, the active flag is
\* unchanged, stop is invocable again and no navigation is scheduled.
StopFailureRecoverable ==
  stopWrite = "error" =>
    (toastTitle # "Ride Stopped" /\ isActive /\ ~isStopping /\ navScheduled = "none")

\* C10: at most one channel is open per name, every open channel belongs to the
\* mounted view's current riderId (and fileId), and none is open after unmount.
NoDanglingChannels ==
  /\ \A c \in channels : \A d \in channels : c[1] = d[1] => c = d
  /\ \A c \in channels :
       /\ mounted
       /\ c[2] = riderId
       /\ c[1] = kind => (c[3] = fileId /\ Guard(riderId, fileId, isLoadingFileId))
  /\ ~mounted => channels = {}

LiveViewClosedAfterChange ==
  /\ ~mounted
  /\ riderId = "R2"
  /\ Guard(riderId, fileId, isLoadingFileId)
  /\ channels = {}

ResolutionFailed ==
  \E r \in Riders : \E out \in {"error", "nodata"} : ResolveResponse(r, out)

NoSessionAfterFailure ==
  [][/\ (mounted /\ ResolutionFailed) => (fileId' = NoFile /\ View' = "no-session")
     /\ \A q \in pending' : q.file # NoFile
     /\ \A c \in channels' : c[1] # "riderdata" => c[3] # NoFile]_vars

\* C13: when a snapshot query answers with an error, the merged list is left
\* exactly as it was, the list's loading flag is cleared, and an error is shown
\* to the user.  The component holds no error state for its lists; the toast is
\* the one notice it can raise.
SnapshotFailed == \E req \in pending : FetchError(req)

ErrorShown == toastTitle = "Error"

SnapshotErrorSurfaced ==
  [][(mounted /\ SnapshotFailed) => (items' = items /\ ~loading' /\ ErrorShown')]_vars

\* C14: changing the sort direction of a loaded list re-orders the elements held
\* in memory, in the same step and without a new snapshot query; the list after
\* the change is a permutation of the list before, in the new direction, and
\* is its exact reverse when no two timestamps are equal.
Count(x, s) == Cardinality({i \in 1..Len(s) : s[i] = x})

IsPermutation(s, t) ==
  /\ Len(s) = Len(t)
  /\ \A x \in Range(s) \cup Range(t) : Count(x, s) = Count(x, t)

Reverse(s) == [i \in 1..Len(s) |-> s[Len(s) + 1 - i]]

NoTies(s) == \A i \in 1..Len(s) : \A j \in 1..Len(s) : i # j => s[i].ts # s[j].ts

ClampWithinRange ==
  gauge.rendered =>
    /\ gauge.overallClamped \in Tenths(0)..Tenths(10)
    /\ gauge.percentage \in 0..100
    /\ overall.type = "number" =>
         /\ overall.val < Tenths(0) => gauge.overallClamped = Tenths(0)
         /\ overall.val > Tenths(10) => gauge.overallClamped = Tenths(10)
         /\ overall.val \in Tenths(0)..Tenths(10) => gauge.overallClamped = overall.val
    /\ overall.type \in {"NaN", "null", "undefined", "text"} =>
         gauge.overallClamped = Tenths(0)

\* C15 witness: the meter was rendered for an overall above the range and shows
\* the upper bound at 100 percent.
ClampedToUpperBound ==
  /\ gauge.rendered
  /\ overall.type = "number"
  /\ overall.val > Tenths(10)
  /\ gauge.overallClamped = Tenths(10)
  /\ gauge.percentage = 100

\* C16: the clamped overall falls in exactly one of four tiers with inclusive
\* lower bounds (>= 8 Excellent, >= 6 Good, >= 4 Needs Improvement, otherwise
\* Poor), the gauge colour is the colour of the tier the label names, and an
\* overall of -3 or NaN gives Poor.
TierColour ==
  [t \in {"Excellent", "Good", "Needs Improvement", "Poor"} |->
     CASE t = "Excellent" -> "#22c55e"
       [] t = "Good" -> "#eab308"
       [] t = "Needs Improvement" -> "#f97316"
       [] t = "Poor" -> "#ef4444"]

TierMatchesColour ==
  gauge.rendered =>
    LET c == gauge.overallClamped
    IN  /\ gauge.label \in DOMAIN TierColour
        /\ gauge.label = "Excellent" <=> c >= Tenths(8)
        /\ gauge.label = "Good" <=> (c >= Tenths(6) /\ c < Tenths(8))
        /\ gauge.label = "Needs Improvement" <=> (c >= Tenths(4) /\ c < Tenths(6))
        /\ gauge.label = "Poor" <=> c < Tenths(4)
        /\ gauge.scoreColor = TierColour[gauge.label]
        /\ (overall = Num(Tenths(-3)) \/ overall = NaN) => gauge.label = "Poor"

\* C16 witness: an overall of exactly 8 is rendered as Excellent in green.
LowerBoundaryIsExcellent ==
  /\ gauge.rendered
  /\ overall = Num(Tenths(8))
  /\ gauge.label = "Excellent"
  /\ gauge.scoreColor = "#22c55e"

\* C17: the session id is resolved at most once per view lifetime: once it
\* holds a resolved value, no later step changes it.
SessionIdImmutable == [][fileId # NoFile => fileId' = fileId]_vars

\* C18: elements with equal timestamps are ordered by arrival, and that order
\* is stable: when a notification is merged, the new element goes in front of
\* the held elements with its timestamp, and for every timestamp the held
\* elements keep the order they had.
AtTime(s, t) == SelectSeq(s, LAMBDA x : x.ts = t)

Merged(e) == Notification(e) /\ Len(items') = Len(items) + 1

TiesKeepArrivalOrder ==
  [][\A e \in Rows : Merged(e) =>
       \A t \in 1..MaxTs :
         AtTime(items', t) =
           IF e.ts = t THEN <<e>> \o AtTime(items, t) ELSE AtTime(items, t)]_vars

\* C18 witness: a notification was merged in front of two different held
\* elements that carry its timestamp.
TieMergedInFront ==
  /\ Len(items) = 3
  /\ items[1].ts = items[2].ts
  /\ items[2].ts = items[3].ts
  /\ items[2] # items[3]
  /\ items[1] \in {items[2], items[3]}

\* C19: after any sequence of telemetry notifications the retained IMU and GPS
\* state is the one computed from the most recent notification alone, and a
\* telemetry notification leaves the merged list, the session id and the
\* stop state as they were.
TelemetryStep == \E d \in Payloads : RiderdataNotification(d)

TelemetryLatestOnly ==
  [][/\ lastSample' # NoSample =>
          (imuData' = ImuOf(lastSample') /\ gpsData' = GpsOf(lastSample'))
     /\ TelemetryStep =>
          UNCHANGED <<items, order, fileId, isLoadingFileId, isActive, isStopping,
                      stopWrite, stopCalls, navScheduled>>]_vars

\* C19 witness: with a loaded list and the stop command sent, the latest
\* sample (ax not a number, latitude 0) is what the view retains.
LatestSampleRetained ==
  /\ lastSample # NoSample
  /\ lastSample.ax.type = "text"
  /\ lastSample.gps_lat = Num(0)
  /\ imuData.ax = Num(0)
  /\ gpsData.latitude = Null
  /\ Len(items) > 0
  /\ isStopping

\* C20: no streamed event is lost to the snapshot race: an element of the
\* current session that is held when the answer of the session's snapshot
\* query is applied is still held afterwards.
SnapshotApplied ==
  \E req \in pending : \E data \in Answers(req) :
    req.file = fileId /\ FetchData(req, data)

StreamedEventSurvivesSnapshot ==
  [][(mounted /\ SnapshotApplied) =>
       \A i \in 1..Len(items) :
         items[i].file_id = fileId => items[i] \in Range(items')]_vars

\* C21: the session-loading state is shown only while a session resolution is
\* in flight, and it is always left: from every state that shows it, the view
\* reaches the live view or the "no active session" state (or is left by the
\* user), also when riderId is absent at view entry.
ResolutionInFlight == \E r \in Riders : pendingR[r] > 0

LoadingOnlyWhileResolving == (mounted /\ View = "loading") => ResolutionInFlight

LoadingEventuallyLeft ==
  (mounted /\ View = "loading") ~> (~mounted \/ View \in {"live", "no-session"})

LoadingStateIsTransient == []LoadingOnlyWhileResolving /\ LoadingEventuallyLeft

\* C22: every snapshot query and every list channel is keyed on a riderId and a
\* session id that was resolved for that riderId; a rider change never pairs
\* the new riderId with the previous rider's session.
SessionKeyMatchesRider ==
  /\ \A q \in pending : FileRider[q.file] = q.rider
  /\ \A c \in channels : c[1] = kind => FileRider[c[3]] = c[2]
====
